---- MODULE Spec2Model ----
(***************************************************************************)
(* Model of the ekf derivative assembler (OdeintHelper::operator()) and of *)
(* the central-body gravity force model (GravityAction).                   *)
(*                                                                         *)
(* A C++ double is modelled as an exact rational <<n, d>> in lowest terms  *)
(* with d > 0; <<0, 0>> stands for the NaN that a division by zero at the  *)
(* coordinate origin produces (every expression of the gravity model that  *)
(* divides by r = 0 ends in NaN, so NaN absorbs every operation).  Rounding *)
(* is not modelled.  Vectors keep the source's 0-based indices: a          *)
(* std::vector of length L is a function with domain 0..L-1.               *)
(***************************************************************************)
EXTENDS Integers, Sequences, FiniteSets, TLC

(***************************************************************************)
(* double arithmetic                                                       *)
(***************************************************************************)
NaN == <<0, 0>>

Abs(n) == IF n < 0 THEN -n ELSE n

RECURSIVE GCD(_, _)
GCD(a, b) == IF b = 0 THEN a ELSE GCD(b, a % b)

Rat(n, d) ==
  IF d = 0 THEN NaN
  ELSE LET g == GCD(Abs(n), Abs(d))
           s == IF d < 0 THEN -1 ELSE 1
       IN  <<(s * n) \div g, (s * d) \div g>>

D(i) == <<i, 1>>

IsNaN(a) == a[2] = 0

Add(a, b) == IF IsNaN(a) \/ IsNaN(b) THEN NaN
             ELSE Rat(a[1] * b[2] + b[1] * a[2], a[2] * b[2])

Neg(a) == IF IsNaN(a) THEN NaN ELSE <<-a[1], a[2]>>

Sub(a, b) == Add(a, Neg(b))

Mul(a, b) == IF IsNaN(a) \/ IsNaN(b) THEN NaN
             ELSE Rat(a[1] * b[1], a[2] * b[2])

Div(a, b) == IF IsNaN(a) \/ IsNaN(b) THEN NaN
             ELSE Rat(a[1] * b[2], a[2] * b[1])

RECURSIVE pow(_, _)
pow(a, k) == IF k = 0 THEN D(1) ELSE Mul(a, pow(a, k - 1))

\* sqrt on the squares of rationals (the inputs are chosen with |pos| rational)
ISqrt(n) == CHOOSE k \in 0..n : k * k = n

sqrt(a) == IF IsNaN(a) THEN NaN ELSE <<ISqrt(a[1]), ISqrt(a[2])>>

\* C++ int / int, for positive operands
IntDiv(a, b) == a \div b

(***************************************************************************)
(* GravityAction                                                           *)
(***************************************************************************)
\* GravityAction( name, radius, mu, J2 ): the cache m_evaledPartials starts empty
EmptyMap == [k \in {} |-> NaN]

GravityAction(radius, mu, J2, debug) ==
  [kind |-> "gravity", m_radius |-> radius, m_mu |-> mu, m_J2 |-> J2,
   m_debug |-> debug, m_evaledPartials |-> EmptyMap]

\* the two gravity models checked: a point mass, and an oblate body
Gravity1 == GravityAction(D(3), D(1), D(0), FALSE)
Gravity2 == GravityAction(D(1), D(2), D(1), TRUE)

\* position and velocity of the sampled states; |pos| is rational, and the
\* origin is the numeric singularity
Samples == {<<1, 2, 2, 4, 5, 6>>, <<2, -2, 1, 0, 1, 0>>, <<0, 0, 0, 1, 1, 1>>}

\* a state vector holding a sample's position and velocity
SampleState(sample) == [idx \in 0..5 |-> D(sample[idx + 1])]

dist(state) == sqrt(Add(Add(pow(state[0], 2), pow(state[1], 2)), pow(state[2], 2)))

\* the value std::terminate leaves behind: none (throw; with no active exception)
Terminate == <<"terminate">>

accJ2(g, state, component) ==
  LET d == dist(state) IN
  IF component \in {"x", "y"}
  THEN Sub(D(1), Mul(Mul(Mul(Rat(3, 2), g.m_J2), pow(Div(g.m_radius, d), 2)),
                     Sub(Mul(D(5), pow(Div(state[2], d), 2)), D(1))))
  ELSE IF component = "z"
  THEN Sub(D(1), Mul(Mul(Mul(Rat(3, 2), g.m_J2), pow(Div(g.m_radius, d), 2)),
                     Sub(Mul(D(5), pow(Div(state[2], d), 2)), D(3))))
  ELSE Terminate

\* -m_mu * state[k] / pow( dist, 3 ) * accJ2( state, component )
AccelerationTerm(g, state, k) ==
  LET comp == <<"x", "y", "z">> IN
  Mul(Div(Mul(Neg(g.m_mu), state[k]), pow(dist(state), 3)),
      accJ2(g, state, comp[k + 1]))

\* variant: the contribution assigned (=) instead of accumulated (+=)
getAcceleration_Assign(g, acceleration, state) ==
  [k \in 0..2 |-> AccelerationTerm(g, state, k)]

getAcceleration(g, acceleration, state) ==
  [k \in 0..2 |-> Add(acceleration[k], AccelerationTerm(g, state, k))]

TableKeys == {"dX wrt X", "dX wrt Y", "dX wrt Z",
              "dY wrt X", "dY wrt Y", "dY wrt Z",
              "dZ wrt X", "dZ wrt Y", "dZ wrt Z"}

\* the order in which evalPartials assigns the nine entries
TableOrder == <<"dX wrt X", "dX wrt Y", "dX wrt Z",
                "dY wrt X", "dY wrt Y", "dY wrt Z",
                "dZ wrt X", "dZ wrt Y", "dZ wrt Z">>

\* The right-hand side evalPartials assigns to m_evaledPartials[ key ].
\* ( 3 / 2 ) and ( 5 / 2 ) are int divisions in the source.
PartialValue(g, state, key) ==
  LET r    == dist(state)
      R    == g.m_radius
      mu   == g.m_mu
      J2   == g.m_J2
      X    == state[0]
      Y    == state[1]
      Z    == state[2]
      r3   == pow(r, 3)
      r5   == pow(r, 5)
      R_r2 == pow(Div(R, r), 2)
      Z_r2 == pow(Div(Z, r), 2)
      c32  == D(IntDiv(3, 2))
      c52  == D(IntDiv(5, 2))
      \* - mu / r3 * ( 1 - ( 3 / 2 ) * J2 * R_r2 * ( 5 * Z_r2 - c ) )
      Central(c) == Mul(Div(Neg(mu), r3),
                        Sub(D(1), Mul(Mul(Mul(c32, J2), R_r2),
                                      Sub(Mul(D(5), Z_r2), D(c)))))
      \* 3 * mu * P * Q / r5 * ( 1 - ( 5 / 2 ) * J2 * R_r2 * ( 7 * Z_r2 - c ) )
      Cross(P, Q, c) == Mul(Div(Mul(Mul(Mul(D(3), mu), P), Q), r5),
                            Sub(D(1), Mul(Mul(Mul(c52, J2), R_r2),
                                          Sub(Mul(D(7), Z_r2), D(c)))))
  IN  CASE key = "dX wrt X" -> Add(Central(1), Cross(X, X, 1))
        [] key = "dX wrt Y" -> Cross(X, Y, 1)
        [] key = "dX wrt Z" -> Cross(X, Z, 3)
        [] key = "dY wrt X" -> Cross(X, Y, 1)
        [] key = "dY wrt Y" -> Add(Central(1), Cross(Y, Y, 1))
        [] key = "dY wrt Z" -> Cross(Y, Z, 3)
        [] key = "dZ wrt X" -> Cross(X, Z, 3)
        [] key = "dZ wrt Y" -> Cross(Y, Z, 3)
        [] key = "dZ wrt Z" -> Add(Central(3), Cross(Z, Z, 5))

\* m_evaledPartials[ key ] = value  (std::map::operator[] assignment)
MapPut(m, key, value) ==
  [k \in DOMAIN m \cup {key} |-> IF k = key THEN value ELSE m[k]]

\* variant: the assignment made with map::insert, which keeps an existing entry
evalPartialsStep_InsertOnly(g, m, state, n) ==
  IF TableOrder[n] \in DOMAIN m THEN m
  ELSE MapPut(m, TableOrder[n], PartialValue(g, state, TableOrder[n]))

\* the n-th assignment of evalPartials, on cache m
evalPartialsStep(g, m, state, n) ==
  MapPut(m, TableOrder[n], PartialValue(g, state, TableOrder[n]))

RECURSIVE evalPartialsFrom(_, _, _, _)
evalPartialsFrom(g, m, state, n) ==
  IF n > Len(TableOrder) THEN m
  ELSE evalPartialsFrom(g, evalPartialsStep(g, m, state, n), state, n + 1)

\* variant: the table is evaluated only while the cache is empty
evalPartials_Memoized(g, state) ==
  IF DOMAIN g.m_evaledPartials # {} THEN g.m_evaledPartials
  ELSE evalPartialsFrom(g, g.m_evaledPartials, state, 1)

\* evalPartials( state ): the cache after the nine assignments
evalPartials(g, state) == evalPartialsFrom(g, g.m_evaledPartials, state, 1)

\* variant: the request built with a leading "d"
partialRequest_Prefixed(top, bottom) == "d" \o top \o " wrt " \o bottom

\* std::string partialRequest = top + " wrt " + bottom;
partialRequest(top, bottom) == top \o " wrt " \o bottom

\* variant: the lookup without the find() guard: operator[] inserts 0.0
getAgentPartial_Inserting(m, top, bottom) ==
  LET req == partialRequest(top, bottom)
      m1  == IF req \in DOMAIN m THEN m ELSE MapPut(m, req, D(0))
  IN  [ret |-> m1[req], m_evaledPartials |-> m1]

\* getAgentPartial( top, bottom ) on cache m: the value returned and the cache
\* it leaves (find() does not insert).
getAgentPartial(m, top, bottom) ==
  LET req == partialRequest(top, bottom) IN
  IF req \notin DOMAIN m
  THEN [ret |-> D(0), m_evaledPartials |-> m]
  ELSE [ret |-> m[req], m_evaledPartials |-> m]

\* variant: the buffer indexed column-major
PartialsIndex_Transposed(i, j, numAgents) == j * numAgents + i

\* partials[ i * numAgents + j ]
PartialsIndex(i, j, numAgents) == i * numAgents + j

\* One pass of the body of the j loop, for the p-th pair in loop order.
RECURSIVE getPartialsLoop(_, _, _, _, _)
getPartialsLoop(m, debug, partials, activeAgents, p) ==
  LET numAgents == Len(activeAgents) IN
  IF p >= numAgents * numAgents
  THEN [partials |-> partials, m_evaledPartials |-> m]
  ELSE LET i   == p \div numAgents
           j   == p % numAgents
           m1  == IF debug
                  THEN getAgentPartial(m, activeAgents[i + 1],
                                       activeAgents[j + 1]).m_evaledPartials
                  ELSE m
           got == getAgentPartial(m1, activeAgents[i + 1], activeAgents[j + 1])
           idx == PartialsIndex(i, j, numAgents)
       IN  getPartialsLoop(got.m_evaledPartials, debug,
                           [partials EXCEPT ![idx] = Add(@, got.ret)],
                           activeAgents, p + 1)

\* getPartials( partials, state, activeAgents ): the buffer and the model after
getPartials(g, partials, state, activeAgents) ==
  LET r == getPartialsLoop(evalPartials(g, state), g.m_debug, partials,
                           activeAgents, 0)
  IN  [partials |-> r.partials,
       action   |-> [g EXCEPT !.m_evaledPartials = r.m_evaledPartials]]

(***************************************************************************)
(* Other force models (the Action interface): only their contract is known *)
(***************************************************************************)
\* An Action that adds a fixed acceleration and a fixed table of partials and
\* abstains (adds 0) on every other pair.  Either of its methods may fail.
StubAction(acc, table) == [kind |-> "stub", acc |-> acc, table |-> table]

\* whether a call of a method of force model a can end in an exception:
\* GravityAction calls accJ2 with 'x', 'y' and 'z' only, so its throw is never
\* reached
MayThrow(a) == a.kind = "stub"

StubAcceleration(a, acceleration) ==
  [k \in 0..2 |-> Add(acceleration[k], a.acc[k])]

StubPartials(a, partials, activeAgents) ==
  LET numAgents == Len(activeAgents) IN
  [p \in DOMAIN partials |->
     Add(partials[p],
         getAgentPartial(a.table, activeAgents[(p \div numAgents) + 1],
                         activeAgents[(p % numAgents) + 1]).ret)]

\* ap->getAcceleration( accel, x )
CallAcceleration(a, acceleration, state) ==
  IF a.kind = "gravity" THEN getAcceleration(a, acceleration, state)
  ELSE StubAcceleration(a, acceleration)

\* ap->getPartials( partials, x, *m_activeAgents )
CallPartials(a, partials, state, activeAgents) ==
  IF a.kind = "gravity" THEN getPartials(a, partials, state, activeAgents)
  ELSE [partials |-> StubPartials(a, partials, activeAgents), action |-> a]

(***************************************************************************)
(* Bounds and input sets                                                   *)
(***************************************************************************)
MaxAgents == 2
MaxActions == 2

AgentNames == {"dX", "X", "J2"}

StubTable == [k \in {"X wrt X", "X wrt dX", "dX wrt X", "dX wrt dX"} |->
                CASE k = "X wrt X"   -> D(1)
                  [] k = "X wrt dX"  -> D(2)
                  [] k = "dX wrt X"  -> D(3)
                  [] k = "dX wrt dX" -> D(4)]
StubAcc == [k \in 0..2 |-> D(k + 1)]

Models == {Gravity1, Gravity2, StubAction(StubAcc, StubTable)}

Injective(s) == \A a, b \in DOMAIN s : a # b => s[a] # s[b]

SeqsUpTo(S, n) == UNION {[1..m -> S] : m \in 0..n}

\* registered force models: distinct instances, in registration order
ActionLists == {s \in SeqsUpTo(Models, MaxActions) : Injective(s)}

\* "an ordered sequence of unique string identifiers"
AgentLists == {s \in SeqsUpTo(AgentNames, MaxAgents) : Injective(s)}

Shapes == {"identity", "count"}

Times == {0, 1}

\* the words an out-of-bounds read may find behind the vector
HeapWords == {D(0), D(1)}

\* the content of the derivative buffer the integrator hands in
Stale == D(7)

\* the p-th entry of the STM block (row width n) for a shape
StmEntry(shape, p, n) ==
  IF n = 0 THEN D(p + 1)
  ELSE LET i == p \div n
           j == p % n
       IN  CASE shape = "identity" -> IF i = j THEN D(1) ELSE D(0)
             [] shape = "count"    -> D(p + 1)

\* a state vector of length len
StateVector(sample, shape, n, len) ==
  [idx \in 0..(len - 1) |->
     IF idx < 6 THEN D(sample[idx + 1]) ELSE StmEntry(shape, idx - 6, n)]

(***************************************************************************)
(* OdeintHelper                                                            *)
(***************************************************************************)
VARIABLES
  m_actions,       \* pointer to the vector of force models (<<>> is nullptr)
  m_activeAgents,  \* pointer to the vector of agent names   (<<>> is nullptr)
  pc,              \* "idle", "accel", "partials", "crashed"
  k,               \* position of the running loop over *m_actions
  x, t, dxdt,      \* the arguments of the call in progress / last finished
  accel,           \* local accel
  partials,        \* local partials
  outcome,         \* of the last call: "none", "ok", "threw", "crashed"
  stale,           \* whether a getPartials of the call found a table that
                   \* an earlier call left with other values
  invoked,         \* number of force-model methods invoked by the call
  \* two getPartials calls running concurrently on one GravityAction
  gravity,         \* the shared instance (its m_evaledPartials is shared)
  raceAgents,      \* the activeAgents argument of both calls
  call             \* per call: position (pc, n), state argument, partials

seqVars == <<m_actions, m_activeAgents, pc, k, x, t, dxdt, accel, partials,
             outcome, stale, invoked>>

raceVars == <<gravity, raceAgents, call>>

vars == <<seqVars, raceVars>>

nullptr == <<>>
PointerTo(vec) == <<vec>>

\* *p when p is not null; what a read through a null vector pointer that does
\* not fault finds (begin == end): an empty vector
Deref(p) == IF p = nullptr THEN <<>> ELSE p[1]

Actions == Deref(m_actions)
Agents == Deref(m_activeAgents)

Zeros(n) == [i \in 0..(n - 1) |-> D(0)]

\* v.size() of a 0-based vector
Size(v) == Cardinality(DOMAIN v)

\* no concurrent calls
NoRace ==
  /\ gravity = Gravity1
  /\ raceAgents = <<>>
  /\ call = <<>>

\* the locals of operator() before any call
NoCall ==
  /\ pc = "idle"
  /\ k = 0
  /\ x = Zeros(0)
  /\ t = 0
  /\ dxdt = Zeros(0)
  /\ accel = Zeros(3)
  /\ partials = Zeros(0)
  /\ outcome = "none"
  /\ stale = FALSE
  /\ invoked = 0

\* OdeintHelper() and OdeintHelper( actions, activeAgents )
Init ==
  /\ \/ m_actions = nullptr /\ m_activeAgents = nullptr
     \/ \E as \in ActionLists, ag \in AgentLists :
          m_actions = PointerTo(as) /\ m_activeAgents = PointerTo(ag)
  /\ NoRace
  /\ pc = "idle"
  /\ k = 0
  /\ x = Zeros(0)
  /\ t = 0
  /\ dxdt = Zeros(0)
  /\ accel = Zeros(3)
  /\ partials = Zeros(0)
  /\ outcome = "none"
  /\ stale = FALSE
  /\ invoked = 0

\* The integrator calls operator()( x, dxdt, t ); line 58.
Call ==
  /\ pc = "idle"
  /\ \E sample \in Samples, shape \in Shapes, slack \in {-1, 0, 1}, tt \in Times :
       LET n == Len(Agents)
           len == 6 + n * n + slack
       IN  /\ shape # "count" => (slack = 0 /\ tt = 0)
           /\ slack # 0 => tt = 0
           /\ x' = StateVector(sample, shape, n, len)
           /\ dxdt' = [i \in 0..(len - 1) |-> Stale]
           /\ t' = tt
  /\ pc' = "accel"
  /\ k' = 0
  /\ accel' = Zeros(3)
  /\ partials' = Zeros(0)
  /\ outcome' = "none"
  /\ stale' = FALSE
  /\ invoked' = 0
  /\ UNCHANGED <<m_actions, m_activeAgents>>
  /\ UNCHANGED raceVars

\* A read through a null m_actions / m_activeAgents that faults.
NullDeref ==
  /\ pc \in {"accel", "partials"}
  /\ m_actions = nullptr
  /\ pc' = "crashed"
  /\ outcome' = "crashed"
  /\ UNCHANGED <<m_actions, m_activeAgents, k, x, t, dxdt, accel, partials,
                 stale, invoked>>
  /\ UNCHANGED raceVars

\* One iteration of the loop of lines 59-62.
AccelStep ==
  /\ pc = "accel"
  /\ k < Len(Actions)
  /\ invoked' = invoked + 1
  /\ \/ /\ MayThrow(Actions[k + 1])
        /\ pc' = "idle"
        /\ outcome' = "threw"
        /\ UNCHANGED <<k, accel>>
     \/ /\ accel' = CallAcceleration(Actions[k + 1], accel, x)
        /\ k' = k + 1
        /\ UNCHANGED <<pc, outcome>>
  /\ UNCHANGED <<m_actions, m_activeAgents, x, t, dxdt, partials, stale>>
  /\ UNCHANGED raceVars

\* variant: the state elements written before the partials loop
AccelDone_WritesEarly ==
  /\ pc = "accel"
  /\ k = Len(Actions)
  /\ pc' = "partials"
  /\ k' = 0
  /\ partials' = Zeros(Len(Agents) * Len(Agents))
  /\ dxdt' = [idx \in DOMAIN dxdt |->
               IF idx < 3 /\ idx + 3 \in DOMAIN x THEN x[idx + 3]
               ELSE IF idx \in 3..5 THEN accel[idx - 3]
               ELSE dxdt[idx]]
  /\ UNCHANGED <<m_actions, m_activeAgents, x, t, accel, outcome, stale,
                 invoked>>
  /\ UNCHANGED raceVars

\* Lines 65-67: the partials accumulator is allocated.
AccelDone ==
  /\ pc = "accel"
  /\ k = Len(Actions)
  /\ pc' = "partials"
  /\ k' = 0
  /\ partials' = Zeros(Len(Agents) * Len(Agents))
  /\ UNCHANGED <<m_actions, m_activeAgents, x, t, dxdt, accel, outcome, stale,
                 invoked>>
  /\ UNCHANGED raceVars

\* One iteration of the loop of lines 68-71.
PartialsStep ==
  /\ pc = "partials"
  /\ k < Len(Actions)
  /\ invoked' = invoked + 1
  /\ \/ /\ MayThrow(Actions[k + 1])
        /\ pc' = "idle"
        /\ outcome' = "threw"
        /\ UNCHANGED <<k, partials, m_actions, stale>>
     \/ LET r == CallPartials(Actions[k + 1], partials, x, Agents) IN
        /\ partials' = r.partials
        /\ m_actions' = PointerTo([Actions EXCEPT ![k + 1] = r.action])
        /\ k' = k + 1
        /\ stale' = (\/ stale
                     \/ /\ Actions[k + 1].kind = "gravity"
                        /\ DOMAIN Actions[k + 1].m_evaledPartials # {}
                        /\ Actions[k + 1] # r.action)
        /\ UNCHANGED <<pc, outcome>>
  /\ UNCHANGED <<m_activeAgents, x, t, dxdt, accel>>
  /\ UNCHANGED raceVars

Idx(n) == (0..(n - 1)) \X (0..(n - 1))

\* A(i, j) = partials[ j + i * numAgents ]
MatrixA(buf, n) == [ij \in Idx(n) |-> buf[ij[2] + ij[1] * n]]

\* x[ idx ], or the heap word behind the vector
ReadX(state, idx, word) == IF idx \in DOMAIN state THEN state[idx] ELSE word

\* stm(i, j) = x[ 6 + j + i * numAgents ]
MatrixStm(state, n, word) ==
  [ij \in Idx(n) |-> ReadX(state, 6 + ij[2] + ij[1] * n, word)]

RECURSIVE Dot(_, _, _, _, _)
Dot(L, R, i, j, m) ==
  IF m = 0 THEN D(0)
  ELSE Add(Dot(L, R, i, j, m - 1), Mul(L[<<i, m - 1>>], R[<<m - 1, j>>]))

\* variant: the operands of the product exchanged: stm * A
MatMul_Swapped(L, R, n) == [ij \in Idx(n) |-> Dot(R, L, ij[1], ij[2], n)]

\* Eigen::MatrixXd dStm = A * stm;
MatMul(L, R, n) == [ij \in Idx(n) |-> Dot(L, R, ij[1], ij[2], n)]

\* lines 137-149: the value written at dxdt[ idx ]
Written(state, acc, dStm, n, idx, word) ==
  IF idx < 3 THEN ReadX(state, idx + 3, word)
  ELSE IF idx < 6 THEN acc[idx - 3]
  ELSE dStm[<<(idx - 6) \div n, (idx - 6) % n>>]

\* the indices lines 137-149 write
WriteSet(n) == 0..(6 + n * n - 1)

\* the derivative after lines 73-149 (writes behind the vector are not in it)
Derivative(state, out, acc, buf, n, word) ==
  LET dStm == MatMul(MatrixA(buf, n), MatrixStm(state, n, word), n) IN
  [idx \in DOMAIN out |->
     IF idx \in WriteSet(n) THEN Written(state, acc, dStm, n, idx, word)
     ELSE out[idx]]

\* whether lines 97-149 index x or dxdt out of bounds
OutOfBounds(state, n) == \E idx \in WriteSet(n) : idx \notin DOMAIN state

\* Lines 73-149.
Assemble ==
  /\ pc = "partials"
  /\ k = Len(Actions)
  /\ LET n == Len(Agents) IN
     \/ /\ ~OutOfBounds(x, n)
        /\ dxdt' = Derivative(x, dxdt, accel, partials, n, D(0))
        /\ pc' = "idle"
        /\ outcome' = "ok"
     \/ /\ OutOfBounds(x, n)
        /\ \E word \in HeapWords :
             dxdt' = Derivative(x, dxdt, accel, partials, n, word)
        /\ pc' = "idle"
        /\ outcome' = "ok"
     \/ /\ OutOfBounds(x, n)
        /\ \E word \in HeapWords :
             dxdt' \in {dxdt, Derivative(x, dxdt, accel, partials, n, word)}
        /\ pc' = "crashed"
        /\ outcome' = "crashed"
  /\ UNCHANGED <<m_actions, m_activeAgents, k, x, t, accel, partials, stale,
                 invoked>>
  /\ UNCHANGED raceVars

Next == Call \/ NullDeref \/ AccelStep \/ AccelDone \/ PartialsStep \/ Assemble

Spec == Init /\ [][Next]_vars

(***************************************************************************)
(* Two concurrent calls of GravityAction::getPartials on one instance      *)
(***************************************************************************)
Other(p) == 3 - p

\* Both calls are at the top of getPartials; the instance is fresh or holds
\* the table an earlier call left.
InitRace ==
  /\ m_actions = nullptr /\ m_activeAgents = nullptr
  /\ NoCall
  /\ raceAgents \in AgentLists
  /\ \E s1, s2 \in Samples :
       \* the two calls are interchangeable: one order of each pair; at the
       \* origin every table value is NaN, whichever state computed it
       /\ 0 < s1[1] /\ s1[1] < s2[1]
       /\ call = [p \in 1..2 |->
                    [pc |-> "eval", n |-> 1,
                     state |-> SampleState(IF p = 1 THEN s1 ELSE s2),
                     partials |-> Zeros(Len(raceAgents) * Len(raceAgents))]]
       /\ \/ gravity = Gravity2
          \/ \E s0 \in Samples \ {s1, s2} :
               gravity = [Gravity2 EXCEPT !.m_evaledPartials =
                            evalPartials(Gravity2, SampleState(s0))]

\* where a call goes once the nine assignments of evalPartials are made
AfterEval(c) ==
  IF Len(raceAgents) = 0 THEN [c EXCEPT !.pc = "done", !.n = 0]
  ELSE [c EXCEPT !.pc = "read", !.n = 0]

\* Call p makes the next assignment of evalPartials.
RaceEvalWrite(p) ==
  /\ call[p].pc = "eval"
  /\ gravity' = [gravity EXCEPT !.m_evaledPartials =
                   evalPartialsStep(gravity, @, call[p].state, call[p].n)]
  /\ call' = [call EXCEPT ![p] = IF call[p].n = Len(TableOrder)
                                  THEN AfterEval(@)
                                  ELSE [@ EXCEPT !.n = @ + 1]]
  /\ UNCHANGED <<raceAgents, seqVars>>

\* Call p inserts a key into the std::map while the other call is inside
\* evalPartials on the same map, and the tree is corrupted.
RaceCorruptsMap(p) ==
  /\ call[p].pc = "eval"
  /\ call[Other(p)].pc = "eval"
  /\ TableOrder[call[p].n] \notin DOMAIN gravity.m_evaledPartials
  /\ call' = [q \in 1..2 |-> [call[q] EXCEPT !.pc = "crashed"]]
  /\ UNCHANGED <<gravity, raceAgents, seqVars>>

\* Call p runs the body of the j loop once (lines 93-102).
RaceRead(p) ==
  /\ call[p].pc = "read"
  /\ LET numAgents == Len(raceAgents)
         i   == call[p].n \div numAgents
         j   == call[p].n % numAgents
         got == getAgentPartial(gravity.m_evaledPartials, raceAgents[i + 1],
                                raceAgents[j + 1])
         idx == PartialsIndex(i, j, numAgents)
     IN  /\ gravity' = [gravity EXCEPT !.m_evaledPartials = got.m_evaledPartials]
         /\ call' = [call EXCEPT
                       ![p].partials[idx] = Add(@, got.ret),
                       ![p].n = @ + 1,
                       ![p].pc = IF call[p].n + 1 = numAgents * numAgents
                                 THEN "done" ELSE "read"]
  /\ UNCHANGED <<raceAgents, seqVars>>

NextRace ==
  \E p \in 1..2 : RaceEvalWrite(p) \/ RaceCorruptsMap(p) \/ RaceRead(p)

SpecRace == InitRace /\ [][NextRace]_vars

(***************************************************************************)
(* Properties                                                              *)
(***************************************************************************)
N == Len(Agents)

\* a call of operator() has been made
Called == pc # "idle" \/ outcome # "none"

\* the call returned normally
Returned == pc = "idle" /\ outcome = "ok"

\* the step taken is a completed getPartials of a gravity model
GravityPartialsStep ==
  /\ pc = "partials"
  /\ k < Len(Actions)
  /\ k' = k + 1
  /\ Actions[k + 1].kind = "gravity"

\* the cache of that gravity model after the step
CacheAfter == Deref(m_actions')[k + 1].m_evaledPartials

\* the value a table holds under a name, 0 when it holds none
Stored(m, name) == IF name \in DOMAIN m THEN m[name] ELSE D(0)

RECURSIVE RowByColumn(_, _, _)
RowByColumn(i, j, m) ==
  IF m = 0 THEN D(0)
  ELSE Add(RowByColumn(i, j, m - 1),
           Mul(partials[(m - 1) + i * N], x[6 + j + (m - 1) * N]))

\* C1: after a call on a state of length 6 + N*N, dxdt[6 + j + i*N] is the sum
\* over k of A[i][k] * STM[k][j], with A[i][j] = partials[j + i*N] and
\* STM[i][j] = x[6 + j + i*N]; A = [[1,2],[3,4]] with STM = identity gives the
\* slice [6..10) = [1,2,3,4].
C1_StmDerivative ==
  (Returned /\ Size(x) = 6 + N * N) =>
    /\ \A i, j \in 0..(N - 1) : dxdt[6 + j + i * N] = RowByColumn(i, j, N)
    /\ ( /\ N = 2
         /\ \A q \in 0..3 : partials[q] = D(q + 1)
         /\ x[6] = D(1) /\ x[7] = D(0) /\ x[8] = D(0) /\ x[9] = D(1) )
       => \A q \in 0..3 : dxdt[6 + q] = D(q + 1)

\* C1 witness: the literal example A = [[1,2],[3,4]], STM = identity
C1_Witness ==
  /\ Returned /\ N = 2 /\ Size(x) = 10
  /\ \A q \in 0..3 : partials[q] = D(q + 1)
  /\ x[6] = D(1) /\ x[7] = D(0) /\ x[8] = D(0) /\ x[9] = D(1)
  /\ \A q \in 0..3 : dxdt[6 + q] = D(q + 1)

\* C2 (as claimed): a call whose state length L has L - 6 # N*N is rejected:
\* no force model is invoked, the call does not return normally and no element
\* of dxdt is written.
C2_LayoutMismatchRejected ==
  (Called /\ m_actions # nullptr /\ Size(x) # 6 + N * N) =>
    /\ invoked = 0
    /\ outcome # "ok"
    /\ \A idx \in DOMAIN dxdt : dxdt[idx] = Stale

\* C3 (as claimed): a gravity getPartials adds to partials[i*N + j] the table
\* value named "d" agent_i " wrt " agent_j.
C3_PrefixedLookup ==
  [][GravityPartialsStep =>
       \A i, j \in 0..(N - 1) :
         partials'[i * N + j] =
           Add(partials[i * N + j],
               Stored(CacheAfter, "d" \o Agents[i + 1] \o " wrt " \o Agents[j + 1]))]_vars

\* C3 (amended): a gravity getPartials adds to partials[i*N + j] the table value
\* named agent_i " wrt " agent_j (no letter added), 0 when there is none.
C3_PlainLookup ==
  [][GravityPartialsStep =>
       \A i, j \in 0..(N - 1) :
         partials'[i * N + j] =
           Add(partials[i * N + j],
               Stored(CacheAfter, Agents[i + 1] \o " wrt " \o Agents[j + 1]))]_vars

\* C3 witness: agents [dX, X], the first model a gravity model that has run:
\* row 0, column 1 holds the non-zero value of "dX wrt X"
C3_Witness ==
  /\ pc = "partials" /\ k = 1
  /\ Actions[1].kind = "gravity"
  /\ Agents = <<"dX", "X">>
  /\ partials[1] = Actions[1].m_evaledPartials["dX wrt X"]
  /\ ~IsNaN(partials[1]) /\ partials[1] # D(0)
  /\ partials[0] = D(0) /\ partials[2] = D(0) /\ partials[3] = D(0)

\* C4 (as claimed): a default-constructed assembler evaluates a state of length
\* 6 without error and writes dxdt[0..3) = x[3..6), dxdt[3..6) = 0.
C4_DefaultConstructedValid ==
  (m_actions = nullptr /\ Called /\ Size(x) = 6) =>
    /\ outcome # "crashed"
    /\ Returned => \A q \in 0..2 : dxdt[q] = x[q + 3] /\ dxdt[q + 3] = D(0)

\* a force model as constructed
Fresh(a) == IF a.kind = "gravity" THEN [a EXCEPT !.m_evaledPartials = EmptyMap]
            ELSE a

\* the accumulated acceleration of the loop of lines 59-62 over models as
RECURSIVE AccumAccel(_, _, _)
AccumAccel(as, state, n) ==
  IF n = 0 THEN Zeros(3)
  ELSE CallAcceleration(as[n], AccumAccel(as, state, n - 1), state)

\* the accumulated partials of the loop of lines 68-71 over models as
RECURSIVE AccumPartials(_, _, _, _)
AccumPartials(as, state, agents, n) ==
  IF n = 0 THEN Zeros(Len(agents) * Len(agents))
  ELSE CallPartials(as[n], AccumPartials(as, state, agents, n - 1), state,
                    agents).partials

Reverse(s) == [q \in 1..Len(s) |-> s[Len(s) + 1 - q]]

\* the derivative a first call on models as writes for the state x
FirstCall(as) ==
  Derivative(x, [idx \in DOMAIN x |-> Stale],
             AccumAccel(as, x, Len(as)), AccumPartials(as, x, Agents, Len(as)),
             N, D(0))

\* C5: whatever calls came before, the derivative written for state x is the
\* one a first call on freshly constructed models writes.
C5_NoCacheLeak ==
  (Returned /\ ~OutOfBounds(x, N)) =>
    dxdt = FirstCall([q \in 1..Len(Actions) |-> Fresh(Actions[q])])

\* C5 witness: a call returned whose gravity model entered it with a cache
\* left by an earlier call on another position
C5_Witness ==
  /\ Returned /\ ~OutOfBounds(x, N) /\ t = 1
  /\ stale
  /\ \E idx \in DOMAIN partials : partials[idx] # D(0) /\ ~IsNaN(partials[idx])

\* C6: dxdt is first written when every getAcceleration and getPartials of the
\* call has completed, so a call that ends in a force model's failure leaves
\* dxdt as it was on entry.
C6_AllOrNothing ==
  /\ [][(pc # "idle" /\ dxdt' # dxdt) =>
          (pc = "partials" /\ k = Len(Actions) /\ invoked = 2 * Len(Actions))]_vars
  /\ [](outcome = "threw" =>
          (pc = "idle" /\ \A idx \in DOMAIN dxdt : dxdt[idx] = Stale))

\* C6 witness: a force model failed after three methods had completed
C6_Witness ==
  /\ outcome = "threw" /\ invoked = 4 /\ Size(dxdt) = 10
  /\ \A idx \in DOMAIN dxdt : dxdt[idx] = Stale

\* C7: with two models registered, the accumulated acceleration, the
\* accumulated partials and the derivative are those of the assembler with the
\* same two models registered in the other order.
C7_OrderIndependent ==
  (Returned /\ Len(Actions) = 2 /\ ~OutOfBounds(x, N)) =>
    /\ accel = AccumAccel(Reverse(Actions), x, 2)
    /\ partials = AccumPartials(Reverse(Actions), x, Agents, 2)
    /\ dxdt = FirstCall(Reverse(Actions))

\* C7 witness: two gravity models, non-zero acceleration and partials
C7_Witness ==
  /\ Returned /\ Len(Actions) = 2 /\ ~OutOfBounds(x, N)
  /\ Actions[1].kind = "gravity" /\ Actions[2].kind = "gravity"
  /\ ~IsNaN(accel[0]) /\ accel[0] # D(0)
  /\ \E idx \in DOMAIN partials : partials[idx] # D(0) /\ ~IsNaN(partials[idx])

\* C8: a gravity getPartials leaves every entry whose name is not one of the
\* nine table names as it was, and the table's key set is the nine names after
\* it.
C8_Abstention ==
  [][GravityPartialsStep =>
       /\ \A i, j \in 0..(N - 1) :
            (Agents[i + 1] \o " wrt " \o Agents[j + 1]) \notin TableKeys
              => partials'[i * N + j] = partials[i * N + j]
       /\ DOMAIN CacheAfter = TableKeys]_vars

\* C8 witness: agents [X, dX]; the entry (X, X), set to 1 by the model before,
\* is still 1 after the gravity model, whose table has the nine keys
C8_Witness ==
  /\ pc = "partials" /\ k = 2
  /\ Actions[1].kind = "stub" /\ Actions[2].kind = "gravity"
  /\ Agents = <<"X", "dX">>
  /\ partials[0] = D(1) /\ partials[1] = D(2) /\ partials[3] = D(4)
  /\ partials[2] # D(3)
  /\ DOMAIN Actions[2].m_evaledPartials = TableKeys

\* C10: a gravity getPartials changes no diagonal entry, and changes entry
\* (i, j) only when agent_i is dX, dY or dZ and agent_j is X, Y or Z.
C10_DiagonalUntouched ==
  [][GravityPartialsStep =>
       /\ \A i \in 0..(N - 1) : partials'[i * N + i] = partials[i * N + i]
       /\ \A i, j \in 0..(N - 1) :
            partials'[i * N + j] # partials[i * N + j]
              => /\ Agents[i + 1] \in {"dX", "dY", "dZ"}
                 /\ Agents[j + 1] \in {"X", "Y", "Z"}]_vars

\* C10 witness: agents [X, dX]; after the gravity model only the entry (dX, X)
\* is non-zero
C10_Witness ==
  /\ pc = "partials" /\ k = 1
  /\ Actions[1].kind = "gravity"
  /\ N = 2 /\ Agents[1] = "X" /\ Agents[2] = "dX"
  /\ partials[2] # D(0)
  /\ partials[0] = D(0) /\ partials[1] = D(0) /\ partials[3] = D(0)

\* the partials buffer call p produces when it runs alone on a fresh instance
Alone(p) ==
  getPartials(Fresh(gravity), Zeros(Len(raceAgents) * Len(raceAgents)),
              call[p].state, raceAgents).partials

\* C9: every entry a finished call holds was computed from its own state or
\* from the state of the concurrent call, and a call that finished before the
\* other began holds its own result; the witness shows an interleaving in
\* which call 1 holds a value computed from the state of call 2.
C9_RaceOnCache ==
  \A p \in 1..2 :
    call[p].pc = "done" =>
      LET own   == Alone(p)
          other == Alone(Other(p))
      IN  /\ \A idx \in DOMAIN call[p].partials :
               call[p].partials[idx] \in {own[idx], other[idx]}
          /\ (call[Other(p)].pc = "eval" /\ call[Other(p)].n = 1)
               => call[p].partials = own

\* C9 witness: call 1 finished with an entry that is the value for the state
\* of call 2 and not the value for its own state
C9_Witness ==
  /\ call[1].pc = "done"
  /\ \E idx \in DOMAIN call[1].partials :
       /\ call[1].partials[idx] = Alone(2)[idx]
       /\ Alone(2)[idx] # Alone(1)[idx]
       /\ ~IsNaN(Alone(1)[idx]) /\ ~IsNaN(Alone(2)[idx])
====
